---- MODULE Spec2Model ----
(***************************************************************************)
(* check-lighthouse-regressions.js: the regression check of two Lighthouse *)
(* result documents, its metrics CSV, and the "Run speedlify" workflow     *)
(* that invokes it.                                                        *)
(*                                                                         *)
(* Scores are JSON number literals with two decimals, held as hundredths   *)
(* (72 is the literal 0.72); the script's arithmetic on them is IEEE-754   *)
(* binary64, as a JavaScript Number is, and is computed here bit for bit.  *)
(***************************************************************************)
EXTENDS Integers, Sequences, FiniteSets, TLC

VARIABLES
    env,             \* process.env.REGRESSION_THRESHOLD_PERCENT
    argv,            \* process.argv[2], process.argv[3]: which paths were given
    oldFile,         \* the document at oldResultsPath
    newFile,         \* the document at newResultsPath
    csvFile,         \* lighthouse-metrics.csv beside the new results
    clock,           \* number of invocations so far; the run's timestamp
    threshold,       \* REGRESSION_THRESHOLD_PERCENT, 0 until line 29 has run
    pc,              \* the script's position
    oldResultsData,  \* loadJson(oldResultsPath)
    newResultsData,  \* loadJson(newResultsPath)
    hasRegressions,
    siteIndex,       \* position of the for-in loop over newResultsData
    console,         \* the diagnostic lines written so far
    exitCode,        \* the code given to process.exit, -1 while running
    csvAtStart,      \* csvFile as the invocation found it
    wfStep,          \* the run-tests job's next step (0: no workflow run yet)
    wfOutcome,       \* the outcome of each step of this workflow run so far
    resultFiles,     \* default/_data/results holds result files
    repo,            \* the main branch: the files the workflow reads and commits
    repoAtStart      \* repo as the workflow run found it

vars == <<env, argv, oldFile, newFile, csvFile, clock, threshold, pc, oldResultsData,
          newResultsData, hasRegressions, siteIndex, console, exitCode, csvAtStart,
          wfStep, wfOutcome, resultFiles, repo, repoAtStart>>

wfVars == <<wfStep, wfOutcome, resultFiles, repo, repoAtStart>>


(***************************************************************************)
(* JavaScript Number arithmetic: IEEE-754 binary64, round to nearest, ties *)
(* to even.  A natural number of any size is a little-endian sequence of   *)
(* limbs; a double is s * m * 2^e with m of exactly MantissaBits bits.     *)
(***************************************************************************)
MantissaBits == 53

RECURSIVE IntBitLen(_)
IntBitLen(n) == IF n = 0 THEN 0 ELSE 1 + IntBitLen(n \div 2)

LimbBase == 2^14
LimbBits == IntBitLen(LimbBase) - 1

RECURSIVE BNorm(_)
BNorm(x) == IF x = <<>> THEN x
            ELSE IF x[Len(x)] = 0 THEN BNorm(SubSeq(x, 1, Len(x) - 1)) ELSE x

BFromInt(n) == BNorm(<<n % LimbBase, (n \div LimbBase) % LimbBase, n \div (LimbBase * LimbBase)>>)

BLimb(x, i) == IF i <= Len(x) THEN x[i] ELSE 0

Max(a, b) == IF a >= b THEN a ELSE b

RECURSIVE BAddFrom(_, _, _, _)
BAddFrom(x, y, i, carry) ==
    IF i > Max(Len(x), Len(y))
    THEN (IF carry = 0 THEN <<>> ELSE <<carry>>)
    ELSE LET s == BLimb(x, i) + BLimb(y, i) + carry
         IN  <<s % LimbBase>> \o BAddFrom(x, y, i + 1, s \div LimbBase)

BAdd(x, y) == BNorm(BAddFrom(x, y, 1, 0))

RECURSIVE BSubFrom(_, _, _, _)
BSubFrom(x, y, i, borrow) ==
    IF i > Len(x) THEN <<>>
    ELSE LET d == BLimb(x, i) - BLimb(y, i) - borrow
         IN  IF d < 0 THEN <<d + LimbBase>> \o BSubFrom(x, y, i + 1, 1)
                      ELSE <<d>> \o BSubFrom(x, y, i + 1, 0)

\* x - y for x >= y
BSub(x, y) == BNorm(BSubFrom(x, y, 1, 0))

RECURSIVE BCmpFrom(_, _, _)
BCmpFrom(x, y, i) ==
    IF i = 0 THEN 0
    ELSE IF x[i] < y[i] THEN -1
    ELSE IF x[i] > y[i] THEN 1
    ELSE BCmpFrom(x, y, i - 1)

\* -1, 0, 1 as x <, =, > y (both normalised)
BCmp(x, y) == IF Len(x) < Len(y) THEN -1
              ELSE IF Len(x) > Len(y) THEN 1
              ELSE BCmpFrom(x, y, Len(x))

RECURSIVE BMulSmallFrom(_, _, _, _)
BMulSmallFrom(x, k, i, carry) ==
    IF i > Len(x)
    THEN (IF carry = 0 THEN <<>> ELSE <<carry>>)
    ELSE LET p == x[i] * k + carry
         IN  <<p % LimbBase>> \o BMulSmallFrom(x, k, i + 1, p \div LimbBase)

\* x * k for 0 <= k <= LimbBase
BMulSmall(x, k) == BNorm(BMulSmallFrom(x, k, 1, 0))

Zeros(n) == [i \in 1..n |-> 0]

RECURSIVE BMulFrom(_, _, _)
BMulFrom(x, y, j) ==
    IF j > Len(y) THEN <<>>
    ELSE BAdd(Zeros(j - 1) \o BMulSmall(x, y[j]), BMulFrom(x, y, j + 1))

BMul(x, y) == IF x = <<>> \/ y = <<>> THEN <<>> ELSE BMulFrom(x, y, 1)

RECURSIVE BDivSmallFrom(_, _, _, _)
\* long division from the most significant limb; returns <<quotient limbs (little-endian), remainder>>
BDivSmallFrom(x, k, i, rem) ==
    IF i = 0 THEN [q |-> <<>>, r |-> rem]
    ELSE LET cur  == rem * LimbBase + x[i]
             rest == BDivSmallFrom(x, k, i - 1, cur % k)
         IN  [q |-> rest.q \o <<cur \div k>>, r |-> rest.r]

\* x divided by k, 0 < k <= LimbBase: quotient and remainder
BDivSmall(x, k) == LET d == BDivSmallFrom(x, k, Len(x), 0)
                   IN  [q |-> BNorm(d.q), r |-> d.r]

BShl(x, n) == IF x = <<>> THEN <<>>
              ELSE Zeros(n \div LimbBits) \o BMulSmall(x, 2^(n % LimbBits))

BShr(x, n) == IF n \div LimbBits >= Len(x) THEN <<>>
              ELSE BDivSmall(SubSeq(x, n \div LimbBits + 1, Len(x)), 2^(n % LimbBits)).q

BBitLen(x) == IF x = <<>> THEN 0 ELSE LimbBits * (Len(x) - 1) + IntBitLen(x[Len(x)])

BOdd(x) == x # <<>> /\ x[1] % 2 = 1

DZero == [s |-> 1, m |-> <<>>, e |-> 0]

\* round-to-nearest, ties-to-even of the exact value s * n * 2^e
DRound(s, n, e) ==
    LET len == BBitLen(n) IN
    IF len = 0 THEN DZero
    ELSE IF len <= MantissaBits
    THEN [s |-> s, m |-> BShl(n, MantissaBits - len), e |-> e - (MantissaBits - len)]
    ELSE LET k    == len - MantissaBits
             q    == BShr(n, k)
             rem  == BSub(n, BShl(q, k))
             c    == BCmp(rem, BShl(<<1>>, k - 1))
             up   == c > 0 \/ (c = 0 /\ BOdd(q))
             q1   == IF up THEN BAdd(q, <<1>>) ELSE q
         IN  IF BBitLen(q1) > MantissaBits
             THEN [s |-> s, m |-> BShr(q1, 1), e |-> e + k + 1]
             ELSE [s |-> s, m |-> q1, e |-> e + k]

Abs(n) == IF n < 0 THEN -n ELSE n
Sgn(n) == IF n < 0 THEN -1 ELSE 1

\* the double nearest to the rational a / b (b > 0): a decimal literal a/100 read by
\* JSON.parse, or the quotient of two integers
DFromRational(a, b) ==
    LET d      == BDivSmall(BShl(BFromInt(Abs(a)), 62), b)
        sticky == IF d.r = 0 THEN <<>> ELSE <<1>>
    IN  DRound(Sgn(a), BAdd(BShl(d.q, 1), sticky), 0 - 63)

DMul(x, y) == DRound(x.s * y.s, BMul(x.m, y.m), x.e + y.e)

Min(a, b) == IF a <= b THEN a ELSE b

\* the exact difference x - y as [s, n, e]
DExactSub(x, y) ==
    LET e  == Min(x.e, y.e)
        xa == BShl(x.m, x.e - e)
        ya == BShl(y.m, y.e - e)
    IN  IF x.s # y.s THEN [s |-> x.s, n |-> BAdd(xa, ya), e |-> e]
        ELSE IF BCmp(xa, ya) >= 0 THEN [s |-> x.s, n |-> BSub(xa, ya), e |-> e]
        ELSE [s |-> 0 - x.s, n |-> BSub(ya, xa), e |-> e]

DSub(x, y) == LET d == DExactSub(x, y) IN DRound(d.s, d.n, d.e)

DLess(x, y) == LET d == DExactSub(x, y) IN d.n # <<>> /\ d.s < 0

DOne == DFromRational(1, 1)

(***************************************************************************)
(* JSON values and documents                                               *)
(***************************************************************************)
\* a property of a parsed object: missing, a number literal n/100, or a string
Undef  == [type |-> "undefined", v |-> 0]
Num(n) == [type |-> "number", v |-> n]
StrVal == [type |-> "string", v |-> 0]

TypeOf(x) == x.type

\* ToBoolean: undefined, 0 and "" are falsy; the model's string is not empty
Truthy(x) == x.type = "string" \/ (x.type = "number" /\ x.v # 0)

DigitText(d) == CASE d = 0 -> "0" [] d = 1 -> "1" [] d = 2 -> "2" [] d = 3 -> "3"
                  [] d = 4 -> "4" [] d = 5 -> "5" [] d = 6 -> "6" [] d = 7 -> "7"
                  [] d = 8 -> "8" [] d = 9 -> "9"

RECURSIVE NatText(_)
NatText(n) == IF n < 10 THEN DigitText(n) ELSE NatText(n \div 10) \o DigitText(n % 10)

\* Number.prototype.toString of the double nearest n/100: the shortest decimal
NumText(n) ==
    IF n % 100 = 0 THEN NatText(n \div 100)
    ELSE NatText(n \div 100) \o "." \o DigitText((n % 100) \div 10)
         \o (IF n % 10 = 0 THEN "" ELSE DigitText(n % 10))

\* String(x) as Array.prototype.join renders an element
ToText(x) == CASE x.type = "number" -> NumText(x.v)
               [] x.type = "string" -> "n/a"
               [] OTHER -> ""

\* the keys a lighthouse object of a results document may hold
Metrics == {"performance", "accessibility", "bestPractices", "best-practices", "seo"}

\* a site's entry of a results document: siteData.url, siteData.lighthouse
NoLighthouse == [present |-> FALSE, scores |-> [m \in Metrics |-> Undef]]
Lighthouse(f) == [present |-> TRUE, scores |-> f]
SiteData(h, u, lh) == [hash |-> h, url |-> u, lighthouse |-> lh]

\* a file: absent, not JSON, or a results object (its sites in document order)
Missing   == [status |-> "missing", sites |-> <<>>]
Malformed == [status |-> "malformed", sites |-> <<>>]
Document(sites) == [status |-> "ok", sites |-> sites]

\* loadJson's result: null, or the parsed object
Null == [isNull |-> TRUE, sites |-> <<>>]
Parsed(sites) == [isNull |-> FALSE, sites |-> sites]

HasSite(data, h) == \E i \in 1..Len(data.sites) : data.sites[i].hash = h
SiteOf(data, h) == data.sites[CHOOSE i \in 1..Len(data.sites) : data.sites[i].hash = h]

(***************************************************************************)
(* Configuration (lines 27-30)                                             *)
(***************************************************************************)
METRICS_TO_CHECK == <<"performance", "accessibility">>

Digits == {"0", "1", "2", "3", "4", "5", "6", "7", "8", "9"}
DigitVal(c) == CASE c = "0" -> 0 [] c = "1" -> 1 [] c = "2" -> 2 [] c = "3" -> 3
                 [] c = "4" -> 4 [] c = "5" -> 5 [] c = "6" -> 6 [] c = "7" -> 7
                 [] c = "8" -> 8 [] c = "9" -> 9

NoEnv == [set |-> FALSE, chars |-> <<>>]
EnvValue(chars) == [set |-> TRUE, chars |-> chars]

RECURSIVE TrimLeft(_)
TrimLeft(s) == IF s # <<>> /\ Head(s) = " " THEN TrimLeft(Tail(s)) ELSE s

RECURSIVE DigitPrefix(_)
DigitPrefix(s) == IF s # <<>> /\ Head(s) \in Digits
                  THEN <<Head(s)>> \o DigitPrefix(Tail(s)) ELSE <<>>

RECURSIVE DecimalValue(_)
DecimalValue(s) == IF s = <<>> THEN 0
                   ELSE 10 * DecimalValue(SubSeq(s, 1, Len(s) - 1)) + DigitVal(s[Len(s)])

NaN == [nan |-> TRUE, v |-> 0]
IntResult(n) == [nan |-> FALSE, v |-> n]

\* parseInt(x, 10): leading white space, a sign, then the longest run of digits;
\* NaN when there is none (undefined is read as the text "undefined")
ParseInt(e) ==
    LET t      == TrimLeft(e.chars)
        neg    == t # <<>> /\ Head(t) = "-"
        signed == t # <<>> /\ Head(t) \in {"-", "+"}
        z      == DigitPrefix(IF signed THEN Tail(t) ELSE t)
    IN  IF ~e.set \/ z = <<>> THEN NaN
        ELSE IntResult(IF neg THEN 0 - DecimalValue(z) ELSE DecimalValue(z))

DefaultThreshold == 10

\* parseInt(process.env.REGRESSION_THRESHOLD_PERCENT, 10) || 10
REGRESSION_THRESHOLD_PERCENT(e) ==
    LET p == ParseInt(e)
    IN  IF p.nan \/ p.v = 0 THEN DefaultThreshold ELSE p.v

\* line 30: REGRESSION_THRESHOLD_PERCENT / 100
THRESHOLD_DECIMAL(t) == DFromRational(t, 100)

\* a score held as hundredths, as JSON.parse reads its literal
ScoreNumber(n) == DFromRational(n, 100)

\* line 169: newScore < oldScore * (1 - THRESHOLD_DECIMAL)
IsRegression(newScore, oldScore, t) ==
    DLess(ScoreNumber(newScore),
          DMul(ScoreNumber(oldScore), DSub(DOne, THRESHOLD_DECIMAL(t))))

(***************************************************************************)
(* Console lines and the metrics CSV                                       *)
(***************************************************************************)
Line(kind, site, metric, newScore, oldScore) ==
    [kind |-> kind, site |-> site, metric |-> metric,
     newScore |-> newScore, oldScore |-> oldScore]
Note(kind) == Line(kind, "", "", Undef, Undef)
SiteNote(kind, site) == Line(kind, site, "", Undef, Undef)

\* siteData.url || siteHash
SiteUrl(sd) == IF sd.url # "" THEN sd.url ELSE sd.hash

NoFile == [exists |-> FALSE, lines |-> <<>>]
CsvOf(lines) == [exists |-> TRUE, lines |-> lines]

\* line 70
Headers == <<"timestamp", "site_url", "site_hash", "performance", "accessibility",
             "best-practices", "seo">>

\* new Date().toISOString(), one per invocation
Timestamp(c) == "2025-01-01T00:00:0" \o NatText(c) \o ".000Z"

\* lines 91-94: value || ''
Cell(x) == IF Truthy(x) THEN ToText(x) ELSE ""

\* lines 87-95
Row(sd, ts) ==
    <<ts, "\"" \o SiteUrl(sd) \o "\"", sd.hash,
      Cell(sd.lighthouse.scores["performance"]),
      Cell(sd.lighthouse.scores["accessibility"]),
      Cell(sd.lighthouse.scores["bestPractices"]),
      Cell(sd.lighthouse.scores["seo"])>>

\* lines 80-99: one row per site that has lighthouse data, in document order
RECURSIVE Rows(_, _)
Rows(sites, ts) ==
    IF sites = <<>> THEN <<>>
    ELSE (IF Head(sites).lighthouse.present THEN <<Row(Head(sites), ts)>> ELSE <<>>)
         \o Rows(Tail(sites), ts)

\* the file had the rows been written with writeFileSync
CsvOverwritten(csv, data, ts) ==
    CsvOf((IF csv.exists THEN <<>> ELSE <<Headers>>) \o Rows(data.sites, ts))

\* lines 65-104: the file after writeToCsv(newResultsData, csvPath)
CsvAfterWrite(csv, data, ts) ==
    CsvOf(csv.lines
          \o (IF csv.exists THEN <<>> ELSE <<Headers>>)
          \o Rows(data.sites, ts))

(***************************************************************************)
(* loadJson (lines 46-58)                                                  *)
(***************************************************************************)
LoadJson(file) == IF file.status = "ok" THEN Parsed(file.sites) ELSE Null

LoadLines(file) == CASE file.status = "missing"   -> <<Note("WARN_NOT_FOUND")>>
                     [] file.status = "malformed" -> <<Note("ERROR_PARSE")>>
                     [] OTHER -> <<>>

(***************************************************************************)
(* The comparison of one site (lines 136-179)                              *)
(***************************************************************************)
\* the comparison without the typeof guard of line 160, a missing score read as 0
MetricLineUnguarded(hash, metric, newLh, oldLh, t) ==
    LET newScore == newLh.scores[metric]
        oldScore == oldLh.scores[metric]
    IN  IF IsRegression(newScore.v, oldScore.v, t)
        THEN Line("REGRESSION", hash, metric, newScore, oldScore)
        ELSE Line("OK", hash, metric, newScore, oldScore)

\* lines 156-178: one tracked metric of a site both runs measured
MetricLine(hash, metric, newLh, oldLh, t) ==
    LET newScore == newLh.scores[metric]
        oldScore == oldLh.scores[metric]
    IN  IF TypeOf(newScore) # "number" \/ TypeOf(oldScore) # "number"
        THEN Line("INVALID_TYPE", hash, metric, newScore, oldScore)
        ELSE IF IsRegression(newScore.v, oldScore.v, t)
        THEN Line("REGRESSION", hash, metric, newScore, oldScore)
        ELSE Line("OK", hash, metric, newScore, oldScore)

\* lines 155-179: METRICS_TO_CHECK.forEach
MetricLines(hash, newLh, oldLh, t) ==
    [k \in 1..Len(METRICS_TO_CHECK) |->
        MetricLine(hash, METRICS_TO_CHECK[k], newLh, oldLh, t)]

\* lines 136-179: the lines one iteration of the loop writes
SiteLines(newSiteData, oldData, t) ==
    IF ~HasSite(oldData, newSiteData.hash)
    THEN <<SiteNote("NEW_SITE", newSiteData.hash)>>
    ELSE LET oldSiteData == SiteOf(oldData, newSiteData.hash)
         IN  IF ~newSiteData.lighthouse.present \/ ~oldSiteData.lighthouse.present
             THEN <<SiteNote("DATA_MISSING", newSiteData.hash)>>
             ELSE <<SiteNote("CHECKING", newSiteData.hash)>>
                  \o MetricLines(newSiteData.hash, newSiteData.lighthouse,
                                 oldSiteData.lighthouse, t)

AnyRegression(lines) == \E i \in 1..Len(lines) : lines[i].kind = "REGRESSION"

(***************************************************************************)
(* The script, one invocation after another                                *)
(***************************************************************************)
Exit(code) == /\ pc' = "exited"
              /\ exitCode' = code

\* node check-lighthouse-regressions.js <old> <new>, on the documents the audit
\* runner left at the two paths
Invoke(args, olds, news, envs) ==
    /\ pc \in {"idle", "exited"}
    /\ \E a \in args, o \in olds, n \in news, e \in envs :
          /\ argv' = a
          /\ oldFile' = (IF a[1] THEN o ELSE Missing)
          /\ newFile' = (IF a[2] THEN n ELSE Missing)
          /\ env' = e
    /\ clock' = clock + 1
    /\ threshold' = 0
    /\ pc' = "args"
    /\ oldResultsData' = Null
    /\ newResultsData' = Null
    /\ hasRegressions' = FALSE
    /\ siteIndex' = 0
    /\ console' = <<>>
    /\ exitCode' = -1
    /\ csvAtStart' = csvFile
    /\ UNCHANGED <<csvFile, wfVars>>

\* lines 27-39
CheckArgs ==
    /\ pc = "args"
    /\ threshold' = REGRESSION_THRESHOLD_PERCENT(env)
    /\ IF ~argv[1] \/ ~argv[2]
       THEN /\ console' = console \o <<Note("USAGE")>>
            /\ Exit(1)
       ELSE /\ pc' = "load"
            /\ UNCHANGED <<console, exitCode>>
    /\ UNCHANGED <<env, argv, oldFile, newFile, csvFile, clock, oldResultsData,
                   newResultsData, hasRegressions, siteIndex, csvAtStart, wfVars>>

\* the load without the guard of lines 111-114
LoadResultsUnguarded ==
    /\ pc = "load"
    /\ oldResultsData' = LoadJson(oldFile)
    /\ newResultsData' = LoadJson(newFile)
    /\ console' = console \o LoadLines(oldFile) \o LoadLines(newFile)
    /\ pc' = "csv"
    /\ UNCHANGED <<env, argv, oldFile, newFile, csvFile, clock, threshold, hasRegressions,
                   siteIndex, exitCode, csvAtStart, wfVars>>

\* lines 107-114
LoadResults ==
    /\ pc = "load"
    /\ oldResultsData' = LoadJson(oldFile)
    /\ newResultsData' = LoadJson(newFile)
    /\ IF LoadJson(newFile).isNull
       THEN /\ console' = console \o LoadLines(oldFile) \o LoadLines(newFile)
                                  \o <<Note("ERROR_NO_NEW_RESULTS")>>
            /\ Exit(1)
       ELSE /\ console' = console \o LoadLines(oldFile) \o LoadLines(newFile)
            /\ pc' = "csv"
            /\ UNCHANGED exitCode
    /\ UNCHANGED <<env, argv, oldFile, newFile, csvFile, clock, threshold, hasRegressions,
                   siteIndex, csvAtStart, wfVars>>

\* lines 117-118
WriteToCsv ==
    /\ pc = "csv"
    /\ csvFile' = CsvAfterWrite(csvFile, newResultsData, Timestamp(clock))
    /\ console' = console \o <<Note("CSV_WRITTEN")>>
    /\ pc' = "baseline"
    /\ UNCHANGED <<env, argv, oldFile, newFile, clock, threshold, oldResultsData, newResultsData,
                   hasRegressions, siteIndex, exitCode, csvAtStart, wfVars>>

\* a missing baseline treated as a failure
CheckBaselineStrict ==
    /\ pc = "baseline"
    /\ IF oldResultsData.isNull
       THEN /\ console' = console \o <<Note("NO_BASELINE")>>
            /\ Exit(1)
            /\ UNCHANGED siteIndex
       ELSE /\ console' = console \o <<Note("COMPARING")>>
            /\ pc' = "compare"
            /\ siteIndex' = 1
            /\ UNCHANGED exitCode
    /\ UNCHANGED <<env, argv, oldFile, newFile, csvFile, clock, threshold, oldResultsData,
                   newResultsData, hasRegressions, csvAtStart, wfVars>>

\* lines 122-131
CheckBaseline ==
    /\ pc = "baseline"
    /\ IF oldResultsData.isNull
       THEN /\ console' = console \o <<Note("NO_BASELINE")>>
            /\ Exit(0)
            /\ UNCHANGED siteIndex
       ELSE /\ console' = console \o <<Note("COMPARING")>>
            /\ pc' = "compare"
            /\ siteIndex' = 1
            /\ UNCHANGED exitCode
    /\ UNCHANGED <<env, argv, oldFile, newFile, csvFile, clock, threshold, oldResultsData,
                   newResultsData, hasRegressions, csvAtStart, wfVars>>

\* the loop as it would be with a break after the first regression
CompareSiteBreaks ==
    /\ pc = "compare"
    /\ siteIndex <= Len(newResultsData.sites)
    /\ LET lines == SiteLines(newResultsData.sites[siteIndex], oldResultsData, threshold)
       IN  /\ console' = console \o lines
           /\ hasRegressions' = (hasRegressions \/ AnyRegression(lines))
           /\ siteIndex' = IF AnyRegression(lines) THEN Len(newResultsData.sites) + 1
                           ELSE siteIndex + 1
    /\ UNCHANGED <<env, argv, oldFile, newFile, csvFile, clock, threshold, pc, oldResultsData,
                   newResultsData, exitCode, csvAtStart, wfVars>>

\* lines 134-181: one iteration of the loop over the new results' sites
CompareSite ==
    /\ pc = "compare"
    /\ siteIndex <= Len(newResultsData.sites)
    /\ LET lines == SiteLines(newResultsData.sites[siteIndex], oldResultsData, threshold)
       IN  /\ console' = console \o lines
           /\ hasRegressions' = (hasRegressions \/ AnyRegression(lines))
    /\ siteIndex' = siteIndex + 1
    /\ UNCHANGED <<env, argv, oldFile, newFile, csvFile, clock, threshold, pc, oldResultsData,
                   newResultsData, exitCode, csvAtStart, wfVars>>

\* lines 183-190
FinalDecision ==
    /\ pc = "compare"
    /\ siteIndex > Len(newResultsData.sites)
    /\ IF hasRegressions
       THEN /\ console' = console \o <<Note("FAILING")>>
            /\ Exit(1)
       ELSE /\ console' = console \o <<Note("PASSED")>>
            /\ Exit(0)
    /\ UNCHANGED <<env, argv, oldFile, newFile, csvFile, clock, threshold, oldResultsData,
                   newResultsData, hasRegressions, siteIndex, csvAtStart, wfVars>>


(***************************************************************************)
(* The documents the invocations are given                                 *)
(***************************************************************************)
Url1 == "https://www.undrr.org/"

\* values a tracked metric takes: missing, a string, and scores among which a drop
\* of exactly, of more than and of less than the default threshold all occur
TrackedValues == {Undef, StrVal, Num(0), Num(72), Num(80)}

Scores(p, a, bp, bph, seo) ==
    [m \in Metrics |-> CASE m = "performance"    -> p
                         [] m = "accessibility"  -> a
                         [] m = "bestPractices"  -> bp
                         [] m = "best-practices" -> bph
                         [] m = "seo"            -> seo]

\* every document of up to two sites: the first from firsts, the second from seconds
Documents(firsts, seconds) ==
    {Document(<<>>)}
    \cup {Document(<<f>>) : f \in firsts}
    \cup {Document(<<g>>) : g \in seconds}
    \cup {Document(<<f, g>>) : f \in firsts, g \in seconds}

Unreadable == {Missing, Malformed}

\* the new results of the comparison runs: site s1 with every pair of tracked values,
\* site s2 healthy, collapsed, or without lighthouse data; seo always collapsed
NewSites1 == {SiteData("s1", Url1, NoLighthouse)}
             \cup {SiteData("s1", Url1, Lighthouse(Scores(p, a, Num(90), Undef, Num(0)))) :
                      p \in TrackedValues, a \in TrackedValues}
NewSites2 == {SiteData("s2", "", NoLighthouse),
              SiteData("s2", "", Lighthouse(Scores(Num(80), Num(80), Num(90), Undef, Num(0)))),
              SiteData("s2", "", Lighthouse(Scores(Num(80), Num(0), Num(90), Undef, Num(0))))}
NewResults == Unreadable \cup Documents(NewSites1, NewSites2)

OldValues == {Undef, StrVal, Num(0), Num(80)}
OldSites1 == {SiteData("s1", Url1, NoLighthouse)}
             \cup {SiteData("s1", Url1, Lighthouse(Scores(p, a, Num(90), Undef, Num(90)))) :
                      p \in OldValues, a \in OldValues}
OldSites2 == {SiteData("s2", "", NoLighthouse),
              SiteData("s2", "", Lighthouse(Scores(Num(80), Num(80), Num(90), Undef, Num(90))))}
OldResults == Unreadable \cup Documents(OldSites1, OldSites2)

Thresholds == {NoEnv, EnvValue(<<"2", "0">>), EnvValue(<<"-", "5", "0">>)}

AllArgs == {<<TRUE, TRUE>>, <<TRUE, FALSE>>, <<FALSE, TRUE>>, <<FALSE, FALSE>>}

\* a metrics CSV an earlier run left behind
EarlierCsv == CsvOf(<<Headers, <<Timestamp(0), "\"" \o Url1 \o "\"", "s1", "0.8", "0.8", "0.9", "0.9">>>>)

(***************************************************************************)
(* Spec: one invocation on any pair of documents                           *)
(***************************************************************************)
IdleProcess ==
    /\ env = NoEnv
    /\ threshold = 0
    /\ argv = <<FALSE, FALSE>>
    /\ oldFile = Missing
    /\ newFile = Missing
    /\ clock = 0
    /\ pc = "idle"
    /\ oldResultsData = Null
    /\ newResultsData = Null
    /\ hasRegressions = FALSE
    /\ siteIndex = 0
    /\ console = <<>>
    /\ exitCode = -1

EmptyRepo == [baseline |-> Missing, last |-> Missing, csv |-> NoFile, results |-> FALSE]

NoWorkflow ==
    /\ wfStep = 0
    /\ wfOutcome = <<>>
    /\ resultFiles = FALSE
    /\ repo = EmptyRepo
    /\ repoAtStart = EmptyRepo

Init ==
    /\ IdleProcess
    /\ NoWorkflow
    /\ csvFile \in {NoFile, EarlierCsv}
    /\ csvAtStart = csvFile

Run ==
    /\ clock < 1
    /\ Invoke(AllArgs, OldResults, NewResults, Thresholds)

Next == \/ Run
        \/ CheckArgs
        \/ LoadResults
        \/ WriteToCsv
        \/ CheckBaseline
        \/ CompareSite
        \/ FinalDecision

Spec == Init /\ [][Next]_vars

(***************************************************************************)
(* SpecLog: invocation after invocation on the same CSV                    *)
(***************************************************************************)
MaxRuns == 2

\* site s1 with a performance and an seo score missing, zero, a string or healthy,
\* and once with its best-practices score under the hyphenated key
LogSites1 ==
    {SiteData("s1", Url1, NoLighthouse),
     SiteData("s1", Url1, Lighthouse(Scores(Num(85), Num(80), Undef, Num(90), Num(95))))}
    \cup {SiteData("s1", Url1, Lighthouse(Scores(p, Num(80), Num(90), Undef, seo))) :
             p \in {Undef, StrVal, Num(0), Num(85)}, seo \in {Undef, Num(0), Num(95)}}
LogSites2 == {SiteData("s2", "", NoLighthouse),
              SiteData("s2", "", Lighthouse(Scores(Num(80), Num(80), Num(90), Undef, Num(95))))}
LogNewResults == Unreadable \cup Documents(LogSites1, LogSites2)

Baseline ==
    Document(<<SiteData("s1", Url1, Lighthouse(Scores(Num(100), Num(80), Num(90), Undef, Num(95)))),
               SiteData("s2", "", Lighthouse(Scores(Num(80), Num(80), Num(90), Undef, Num(95))))>>)
LogOldResults == {Missing, Baseline}

RunAgain ==
    /\ clock < MaxRuns
    /\ Invoke({<<TRUE, TRUE>>}, LogOldResults, LogNewResults, {NoEnv})

NextLog == \/ RunAgain
           \/ CheckArgs
           \/ LoadResults
           \/ WriteToCsv
           \/ CheckBaseline
           \/ CompareSite
           \/ FinalDecision

SpecLog == Init /\ [][NextLog]_vars

(***************************************************************************)
(* SpecRule: one invocation on one site, over many scores and thresholds   *)
(***************************************************************************)
MaxEnvLen == 2

EnvAlphabet == {"-", "0", "1", "5", "x", "."}

RECURSIVE Texts(_)
Texts(n) == IF n = 0 THEN {<<>>}
            ELSE Texts(n - 1) \cup {Append(t, c) : t \in Texts(n - 1), c \in EnvAlphabet}

EnvTexts == {NoEnv} \cup {EnvValue(t) : t \in Texts(MaxEnvLen)}

\* the README's examples, drops of exactly one tenth, and the ends of the scale
RuleScores == {0, 45, 50, 72, 75, 80, 82, 85, 90, 100}

RuleResults ==
    {Document(<<SiteData("s1", Url1, Lighthouse(Scores(Num(p), Num(90), Num(90), Undef, Num(95))))>>) :
        p \in RuleScores}

RunRule ==
    /\ clock < 1
    /\ Invoke({<<TRUE, TRUE>>}, RuleResults, RuleResults, EnvTexts)

NextRule == \/ RunRule
            \/ CheckArgs
            \/ LoadResults
            \/ WriteToCsv
            \/ CheckBaseline
            \/ CompareSite
            \/ FinalDecision

SpecRule == Init /\ [][NextRule]_vars

(***************************************************************************)
(* SpecCI: the run-tests job of the "Run speedlify" workflow               *)
(***************************************************************************)
Steps == <<"Checkout results", "Checkout speedlify", "Copy existing results",
           "Install npm dependencies", "Run test-pages",
           "Check for Lighthouse Regressions", "Upload results artifact",
           "Upload results-last-runs artifact", "Push results to main branch",
           "Verify test output">>

StepIndex(name) == CHOOSE i \in DOMAIN Steps : Steps[i] = name

\* every step continues on error, the regression check included
ContinueOnErrorEverywhere(name) == TRUE

\* continue-on-error: true
ContinueOnError(name) == name = "Checkout results"

\* success(): no earlier step has failed, but for those that continue on error
JobSucceeding ==
    \A i \in DOMAIN wfOutcome : wfOutcome[i] = "failure" => ContinueOnError(Steps[i])

\* a step's if: success() unless it says otherwise, and the condition it states
StepRuns(name) ==
    /\ JobSucceeding
    /\ name = "Copy existing results" => wfOutcome[StepIndex("Checkout results")] = "success"

AtStep(name) == wfStep = StepIndex(name) /\ StepRuns(name)

Finish(outcome) ==
    /\ wfOutcome' = Append(wfOutcome, outcome)
    /\ wfStep' = wfStep + 1

scriptVars == <<env, argv, clock, threshold, pc, oldResultsData, newResultsData,
                hasRegressions, siteIndex, console, exitCode, csvAtStart>>

\* a push, the schedule or a manual dispatch starts the job on a fresh runner
StartWorkflow ==
    /\ wfStep \in {0, Len(Steps) + 1}
    /\ clock < MaxRuns
    /\ wfStep' = 1
    /\ wfOutcome' = <<>>
    /\ repoAtStart' = repo
    /\ resultFiles' = FALSE
    /\ oldFile' = Missing
    /\ newFile' = Missing
    /\ csvFile' = NoFile
    /\ csvAtStart' = NoFile
    /\ pc' = "idle"
    /\ exitCode' = -1
    /\ console' = <<>>
    /\ oldResultsData' = Null
    /\ newResultsData' = Null
    /\ hasRegressions' = FALSE
    /\ siteIndex' = 0
    /\ threshold' = 0
    /\ UNCHANGED <<env, argv, clock, repo>>

\* a step whose condition is false
SkipStep ==
    /\ wfStep \in DOMAIN Steps
    /\ ~StepRuns(Steps[wfStep])
    /\ Finish("skipped")
    /\ UNCHANGED <<scriptVars, oldFile, newFile, csvFile, resultFiles, repo, repoAtStart>>

\* lines 22-28: main into results/; results/results-last-runs.json is the file at
\* the root of the branch
CheckoutResults ==
    /\ AtStep("Checkout results")
    /\ \/ /\ oldFile' = repo.baseline
          /\ Finish("success")
       \/ /\ oldFile' = Missing
          /\ Finish("failure")
    /\ UNCHANGED <<scriptVars, newFile, csvFile, resultFiles, repo, repoAtStart>>

\* lines 29-32: the ref that started the run, here main, into default/
CheckoutSpeedlify ==
    /\ AtStep("Checkout speedlify")
    /\ newFile' = repo.last
    /\ csvFile' = repo.csv
    /\ Finish("success")
    /\ UNCHANGED <<scriptVars, oldFile, resultFiles, repo, repoAtStart>>

\* lines 33-35
CopyExistingResults ==
    /\ AtStep("Copy existing results")
    /\ resultFiles' = repo.results
    /\ Finish("success")
    /\ UNCHANGED <<scriptVars, oldFile, newFile, csvFile, repo, repoAtStart>>

\* lines 41-43
InstallDependencies ==
    /\ AtStep("Install npm dependencies")
    /\ Finish("success")
    /\ UNCHANGED <<scriptVars, oldFile, newFile, csvFile, resultFiles, repo, repoAtStart>>

CiNewResults ==
    {Document(<<SiteData("s1", Url1, Lighthouse(Scores(Num(p), Num(80), Num(90), Undef, Num(95)))),
                SiteData("s2", "", Lighthouse(Scores(Num(80), Num(80), Num(90), Undef, Num(95))))>>) :
        p \in {85, 100}}

\* lines 44-48: the audits fail, or write their results, or write none
RunTestPages ==
    /\ AtStep("Run test-pages")
    /\ \/ /\ Finish("failure")
          /\ UNCHANGED <<newFile, resultFiles>>
       \/ /\ newFile' \in CiNewResults
          /\ resultFiles' = TRUE
          /\ Finish("success")
       \/ /\ Finish("success")
          /\ UNCHANGED <<newFile, resultFiles>>
    /\ UNCHANGED <<scriptVars, oldFile, csvFile, repo, repoAtStart>>

\* lines 49-54: node default/check-lighthouse-regressions.js
\*   results/results-last-runs.json default/_data/results-last-runs.json
CheckRegressions ==
    /\ AtStep("Check for Lighthouse Regressions")
    /\ pc = "idle"
    /\ Invoke({<<TRUE, TRUE>>}, {oldFile}, {newFile}, {EnvValue(<<"1", "0">>)})

\* the step ends as the script exits
CheckRegressionsDone ==
    /\ AtStep("Check for Lighthouse Regressions")
    /\ pc = "exited"
    /\ Finish(IF exitCode = 0 THEN "success" ELSE "failure")
    /\ UNCHANGED <<scriptVars, oldFile, newFile, csvFile, resultFiles, repo, repoAtStart>>

\* lines 55-64
UploadArtifacts ==
    /\ \/ AtStep("Upload results artifact")
       \/ AtStep("Upload results-last-runs artifact")
    /\ Finish("success")
    /\ UNCHANGED <<scriptVars, oldFile, newFile, csvFile, resultFiles, repo, repoAtStart>>

\* lines 65-91: the results, results-last-runs.json and the CSV copied into the
\* checkout of main, committed and pushed; cd and cp fail on what is not there
PushResults ==
    /\ AtStep("Push results to main branch")
    /\ IF wfOutcome[StepIndex("Checkout results")] # "success"
          \/ ~resultFiles \/ newFile.status = "missing"
       THEN /\ Finish("failure")
            /\ UNCHANGED repo
       ELSE /\ repo' = [repo EXCEPT !.results = TRUE,
                                    !.last = newFile,
                                    !.csv = IF csvFile.exists THEN csvFile ELSE @]
            /\ Finish("success")
    /\ UNCHANGED <<scriptVars, oldFile, newFile, csvFile, resultFiles, repoAtStart>>

\* lines 92-97
VerifyTestOutput ==
    /\ AtStep("Verify test output")
    /\ Finish(IF resultFiles THEN "success" ELSE "failure")
    /\ UNCHANGED <<scriptVars, oldFile, newFile, csvFile, resultFiles, repo, repoAtStart>>

\* main as the first workflow run may find it: with or without a
\* results-last-runs.json at its root
InitCI ==
    /\ IdleProcess
    /\ csvFile = NoFile
    /\ csvAtStart = NoFile
    /\ wfStep = 0
    /\ wfOutcome = <<>>
    /\ resultFiles = FALSE
    /\ repo \in {[EmptyRepo EXCEPT !.baseline = b] : b \in {Missing, Baseline}}
    /\ repoAtStart = repo

NextCI == \/ StartWorkflow
          \/ SkipStep
          \/ CheckoutResults
          \/ CheckoutSpeedlify
          \/ CopyExistingResults
          \/ InstallDependencies
          \/ RunTestPages
          \/ CheckRegressions
          \/ CheckArgs
          \/ LoadResults
          \/ WriteToCsv
          \/ CheckBaseline
          \/ CompareSite
          \/ FinalDecision
          \/ CheckRegressionsDone
          \/ UploadArtifacts
          \/ PushResults
          \/ VerifyTestOutput

SpecCI == InitCI /\ [][NextCI]_vars

(***************************************************************************)
(* What the claims speak of                                                *)
(***************************************************************************)
TrackedMetrics == {"performance", "accessibility"}
Verdicts == {"OK", "REGRESSION", "INVALID_TYPE"}
PerSiteKinds == Verdicts \cup {"NEW_SITE", "DATA_MISSING", "CHECKING"}

Said(kind) == \E i \in DOMAIN console : console[i].kind = kind

BothGiven == argv = <<TRUE, TRUE>>
BothLoaded == BothGiven /\ newFile.status = "ok" /\ oldFile.status = "ok"

\* the site's entry in a document, when it has one with lighthouse data
Measured(file, h) ==
    \E k \in DOMAIN file.sites : file.sites[k].hash = h /\ file.sites[k].lighthouse.present

NumericIn(file, h, m) ==
    \E k \in DOMAIN file.sites : /\ file.sites[k].hash = h
                                 /\ file.sites[k].lighthouse.present
                                 /\ file.sites[k].lighthouse.scores[m].type = "number"

\* the hashes of the sites that have lighthouse data, in document order
RECURSIVE MeasuredHashes(_)
MeasuredHashes(sites) ==
    IF sites = <<>> THEN <<>>
    ELSE (IF Head(sites).lighthouse.present THEN <<Head(sites).hash>> ELSE <<>>)
         \o MeasuredHashes(Tail(sites))

IsPrefix(a, b) == Len(a) <= Len(b) /\ SubSeq(b, 1, Len(a)) = a

\* the lines the current invocation added to the CSV
Appended == SubSeq(csvFile.lines, Len(csvAtStart.lines) + 1, Len(csvFile.lines))

\* C2: when both documents load, the exit code is 1 if and only if some (site,
\* tracked metric) pair was declared a REGRESSION and 0 otherwise, and every tracked
\* metric of every site measured in both documents got its verdict before the exit,
\* whether or not a regression had been found before it.
C2_ExitCodeIffRegression ==
    (pc = "exited" /\ BothLoaded) =>
        /\ exitCode = (IF Said("REGRESSION") THEN 1 ELSE 0)
        /\ \A i \in DOMAIN newFile.sites : \A m \in TrackedMetrics :
              (Measured(newFile, newFile.sites[i].hash) /\ Measured(oldFile, newFile.sites[i].hash))
              => \E j \in DOMAIN console : /\ console[j].kind \in Verdicts
                                           /\ console[j].site = newFile.sites[i].hash
                                           /\ console[j].metric = m

\* a run that failed on its first site and still gave the second site its verdicts
C2_Witness ==
    /\ pc = "exited" /\ BothLoaded /\ exitCode = 1
    /\ \E i, j \in DOMAIN console :
          /\ i < j
          /\ console[i].kind = "REGRESSION" /\ console[i].site = "s1"
          /\ console[j].kind = "OK" /\ console[j].site = "s2"

\* C3: when the new results are missing or malformed the run exits with code 1 and
\* the metrics CSV is as the invocation found it, whatever the old results are.
C3_NoNewResultsNoLog ==
    (pc # "idle" /\ newFile.status # "ok") =>
        /\ csvFile = csvAtStart
        /\ pc = "exited" => exitCode = 1

C3_Witness ==
    /\ pc = "exited" /\ BothGiven /\ exitCode = 1
    /\ newFile.status = "malformed" /\ oldFile.status = "ok"
    /\ ~csvFile.exists

\* C4: when the old results are missing or malformed and the new results load, the
\* run exits with code 0 having written no per-site line, and the CSV is what it
\* was, then the header if the file was new, then one row per measured site of the
\* new results, in order.
C4_NoBaselineSucceeds ==
    (pc = "exited" /\ BothGiven /\ newFile.status = "ok" /\ oldFile.status # "ok") =>
        /\ exitCode = 0
        /\ \A i \in DOMAIN console : console[i].kind \notin PerSiteKinds
        /\ csvFile.exists
        /\ IsPrefix(csvAtStart.lines, csvFile.lines)
        /\ LET rows == IF csvAtStart.exists THEN Appended ELSE Tail(Appended)
           IN  /\ ~csvAtStart.exists => Head(Appended) = Headers
               /\ [k \in DOMAIN rows |-> rows[k][3]] = MeasuredHashes(newFile.sites)

\* no baseline, two measured sites whose scores have collapsed: exit 0, two rows
C4_Witness ==
    /\ pc = "exited" /\ BothGiven /\ exitCode = 0
    /\ oldFile.status = "missing" /\ newFile.status = "ok"
    /\ Len(Appended) = 2
    /\ \E i \in DOMAIN newFile.sites :
          newFile.sites[i].lighthouse.scores["accessibility"] = Num(0)

\* C7: a pair is declared a REGRESSION only for a site both documents hold with
\* lighthouse data and a metric that is a number in both; and a run on two loaded
\* documents exits 1 only if such a pair exists.
C7_OnlyComparablePairsRegress ==
    /\ \A i \in DOMAIN console :
          console[i].kind = "REGRESSION" =>
              /\ console[i].metric \in TrackedMetrics
              /\ NumericIn(newFile, console[i].site, console[i].metric)
              /\ NumericIn(oldFile, console[i].site, console[i].metric)
    /\ (pc = "exited" /\ BothLoaded /\ exitCode = 1) =>
          \E i \in DOMAIN newFile.sites : \E m \in TrackedMetrics :
              /\ NumericIn(newFile, newFile.sites[i].hash, m)
              /\ NumericIn(oldFile, newFile.sites[i].hash, m)

\* a run that skipped a non-numeric score and a site new to this run, and passed
C7_Witness ==
    /\ pc = "exited" /\ BothLoaded /\ exitCode = 0
    /\ Said("INVALID_TYPE")
    /\ Said("NEW_SITE") \/ Said("DATA_MISSING")

\* the score a site holds for a metric of the CSV's vocabulary; best-practices under
\* either spelling of its key
Held(sd, m) ==
    IF m # "best-practices" THEN sd.lighthouse.scores[m]
    ELSE IF sd.lighthouse.scores["best-practices"] # Undef
    THEN sd.lighthouse.scores["best-practices"]
    ELSE sd.lighthouse.scores["bestPractices"]

Vocabulary == <<"performance", "accessibility", "best-practices", "seo">>

MeasuredSites(sites) == SelectSeq(sites, LAMBDA sd : sd.lighthouse.present)

\* the rows (not the header) the current invocation added
AppendedRows == IF csvAtStart.exists \/ Appended = <<>> THEN Appended ELSE Tail(Appended)

HeaderCount == Cardinality({i \in DOMAIN csvFile.lines : csvFile.lines[i] = Headers})

\* C5: the CSV is append-only over any sequence of runs: what an invocation found
\* stays an unchanged prefix; a run whose new results load adds exactly one row per
\* measured site of the new results (whether it exits 0 or 1); the header is
\* written only by the run that creates the file, as its first line, and so
\* appears at most once.
C5_LogAppendOnly ==
    /\ IsPrefix(csvAtStart.lines, csvFile.lines)
    /\ HeaderCount <= 1
    /\ \A i \in DOMAIN csvFile.lines : csvFile.lines[i] = Headers => i = 1
    /\ csvAtStart.exists => csvFile.exists
    /\ (pc = "exited" /\ newFile.status = "ok") =>
          /\ csvFile.exists
          /\ Len(Appended) = Len(MeasuredHashes(newFile.sites))
                             + (IF csvAtStart.exists THEN 0 ELSE 1)
          /\ ~csvAtStart.exists => Head(Appended) = Headers
          /\ [k \in DOMAIN AppendedRows |-> AppendedRows[k][3]] = MeasuredHashes(newFile.sites)

\* a second run, failing on a regression, that added two rows below the first run's
C5_Witness ==
    /\ pc = "exited" /\ clock = 2 /\ exitCode = 1 /\ Said("REGRESSION")
    /\ csvAtStart.exists /\ Len(csvAtStart.lines) >= 3
    /\ Len(Appended) = 2
    /\ HeaderCount = 1

\* C6: each appended row records, for each of performance, accessibility,
\* best-practices and seo, the score the site holds, and a column is empty exactly
\* when the site holds no score for that metric.
C6_RowRecordsEveryMetric ==
    (pc \in {"baseline", "compare", "exited"} /\ newFile.status = "ok") =>
        \A k \in DOMAIN AppendedRows : \A c \in DOMAIN Vocabulary :
            LET held == Held(MeasuredSites(newFile.sites)[k], Vocabulary[c])
                cell == AppendedRows[k][3 + c]
            IN  /\ (cell = "") <=> (held = Undef)
                /\ held # Undef => cell = ToText(held)

\* C1: for every compared pair with numeric scores and oldScore > 0, the pair is
\* declared a REGRESSION if and only if newScore < oldScore * (1 - t/100) for the
\* threshold percent t in force, a new score exactly at oldScore * (1 - t/100)
\* being OK.  In hundredths: new * 100 < old * (100 - t).
C1_RegressionIffBelowThreshold ==
    \A i \in DOMAIN console :
        (console[i].kind \in {"OK", "REGRESSION"} /\ console[i].oldScore.v > 0) =>
            (console[i].kind = "REGRESSION"
             <=> console[i].newScore.v * 100 < console[i].oldScore.v * (100 - threshold))

\* C8: whatever threshold the process accepted, a pair whose new score is not below
\* its old score is never declared a REGRESSION.
C8_OneSided ==
    \A i \in DOMAIN console :
        console[i].kind = "REGRESSION" => console[i].newScore.v < console[i].oldScore.v

Unsigned(chars) == IF chars # <<>> /\ Head(chars) \in {"-", "+"} THEN Tail(chars) ELSE chars

AllDigits(chars) == \A i \in DOMAIN chars : chars[i] \in Digits

\* the text of an integer: a sign or none, then digits only
IsIntegerText(e) == e.set /\ Unsigned(e.chars) # <<>> /\ AllDigits(Unsigned(e.chars))

IntegerOf(e) == IF e.chars[1] = "-" THEN 0 - DecimalValue(Unsigned(e.chars))
                ELSE DecimalValue(Unsigned(e.chars))

\* the text of a number: a sign or none, then digits with at most one point
IsNumericText(e) ==
    /\ e.set
    /\ \E i \in DOMAIN e.chars : e.chars[i] \in Digits
    /\ \A i \in DOMAIN Unsigned(e.chars) : Unsigned(e.chars)[i] \in Digits \cup {"."}
    /\ Cardinality({i \in DOMAIN e.chars : e.chars[i] = "."}) <= 1

\* C9: the threshold in force is the integer given in REGRESSION_THRESHOLD_PERCENT
\* whenever that is an integer, and 10 when the variable is absent or not a number.
C9_ThresholdIsTheIntegerGiven ==
    pc \notin {"idle", "args"} =>
        /\ IsIntegerText(env) => threshold = IntegerOf(env)
        /\ ~IsNumericText(env) => threshold = 10

Outcome(name) == IF StepIndex(name) \in DOMAIN wfOutcome THEN wfOutcome[StepIndex(name)]
                 ELSE "pending"

\* C10: in a workflow run whose regression check exits 1 the job fails and the push
\* step never executes, so main keeps the results, the baseline and the CSV it had;
\* main changes only in a run whose check exited 0.
C10_FailedCheckCommitsNothing ==
    /\ (wfStep > 0 /\ exitCode = 1) =>
          /\ repo = repoAtStart
          /\ Outcome("Check for Lighthouse Regressions") \in {"pending", "failure"}
          /\ Outcome("Check for Lighthouse Regressions") = "failure" => ~JobSucceeding
          /\ Outcome("Push results to main branch") \in {"pending", "skipped"}
    /\ (wfStep > 0 /\ repo # repoAtStart) =>
          /\ exitCode = 0
          /\ Outcome("Check for Lighthouse Regressions") = "success"
          /\ Outcome("Push results to main branch") = "success"

\* a finished workflow run whose check found a regression: the rows it appended
\* are on the runner, main is as it was, the push step was skipped
C10_Witness ==
    /\ wfStep = Len(Steps) + 1
    /\ exitCode = 1 /\ Said("REGRESSION")
    /\ Len(csvFile.lines) > Len(csvAtStart.lines)
    /\ repo = repoAtStart
    /\ Outcome("Push results to main branch") = "skipped"

====
